---- MODULE Spec2Model ----
(***************************************************************************)
(* Skin Tone Color Suggestion API: the upload handler                      *)
(* (app/routes/color_analysis.py), the settings accessor (app/config.py)   *)
(* and the analysis core the handler drives (core.image_processor,         *)
(* core.color_analyzer: not among the sources, modelled from spec.md).     *)
(***************************************************************************)
EXTENDS Integers, Sequences, FiniteSets, TLC

(* ------------------------------ bounds -------------------------------- *)

\* Number of upload requests in flight at the same time.
NumRequests == 2

\* Number of threads calling get_settings, and calls each of them makes.
NumThreads == 2
MaxCalls == 2

Requests == 1..NumRequests
Threads == 1..NumThreads

(* --------------------------- Python values ---------------------------- *)

None == [type |-> "NoneType"]

\* app/config.py: the Settings fields and their defaults.
Settings ==
    [type |-> "Settings",
     debug |-> FALSE,
     max_image_size |-> 10 * 1024 * 1024,
     allowed_image_types |-> {"image/jpeg", "image/png", "image/webp"}]

\* color_analysis.py:15, the module-level settings object the handler reads.
settings == Settings

\* An exception object: its class, and for HTTPException status and detail.
Exc(class, status, detail) ==
    [type |-> "exception", class |-> class, status |-> status, detail |-> detail]

HTTPException(status, detail) == Exc("HTTPException", status, detail)

IsError(v) == v.type = "exception"

\* The classes deriving from Exception: what `except Exception` catches.
\* fastapi.HTTPException derives from Exception like the core's own errors.
ExceptionSubclasses ==
    {"HTTPException", "DecodeError", "EmptyImageError", "InsufficientDataError",
     "UnknownCombinationError", "TypeError"}

(* ------------------------------ inputs -------------------------------- *)

\* Content types a client may declare: an allowed one, and one that is not.
ContentTypes == {"image/png", "image/gif"}

\* What the uploaded bytes decode to.
Images == {"corrupt", "zero_dim", "no_skin_samples", "light_warm", "dark_neutral"}

Bytes(n, img) == [type |-> "bytes", len |-> n, img |-> img]

\* Bodies a client may send: every kind of image at exactly the size limit,
\* and a good image one byte over it.
Bodies ==
    {Bytes(settings.max_image_size, img) : img \in Images}
        \union {Bytes(settings.max_image_size + 1, "light_warm")}

(* ------------------- the analysis core, from spec.md ------------------- *)

Categories == {"fair", "light", "medium", "dark"}
Undertones == {"cool", "warm", "neutral"}
AllCombinations == Categories \X Undertones

\* Representative pixel samples the preprocessor extracts from an image.
Pixels(img) ==
    CASE img = "light_warm" -> << <<255, 224, 189>> >>
      [] img = "dark_neutral" -> << <<90, 70, 80>> >>
      [] OTHER -> << >>

\* spec.md 4.1: decode, locate skin, return samples; DecodeError on bytes that
\* are no image, EmptyImageError on zero dimensions.
process_image(content) ==
    IF content.type # "bytes" THEN Exc("TypeError", 0, "bytes expected")
    ELSE IF content.img = "corrupt" THEN Exc("DecodeError", 0, "cannot decode image")
    ELSE IF content.img = "zero_dim" THEN Exc("EmptyImageError", 0, "empty image")
    ELSE [type |-> "samples", pixels |-> Pixels(content.img), fallback |-> FALSE]

Brightness(px) == (px[1] + px[2] + px[3]) \div 3

CategoryOf(px) ==
    IF Brightness(px) > 235 THEN "fair"
    ELSE IF Brightness(px) > 180 THEN "light"
    ELSE IF Brightness(px) > 110 THEN "medium"
    ELSE "dark"

UndertoneOf(px) ==
    IF px[1] - px[3] > 30 THEN "warm"
    ELSE IF px[3] - px[1] > 30 THEN "cool"
    ELSE "neutral"

\* spec.md 4.2: classify the dominant colour; InsufficientDataError on zero
\* samples.
analyze_skin_tone(samples) ==
    IF samples.type # "samples" THEN Exc("TypeError", 0, "samples expected")
    ELSE IF samples.pixels = << >>
    THEN Exc("InsufficientDataError", 0, "unable to analyze image")
    ELSE [type |-> "dict",
          category |-> CategoryOf(samples.pixels[1]),
          undertone |-> UndertoneOf(samples.pixels[1]),
          dominant_colors |-> samples.pixels,
          confidence |-> IF samples.fallback THEN 50 ELSE 100]

\* spec.md 4.3: table lookup keyed by (category, undertone);
\* UnknownCombinationError when the catalog misses the pair.
get_color_recommendations(cat, skin) ==
    IF skin.type # "dict" THEN Exc("TypeError", 0, "dict expected")
    ELSE IF <<skin.category, skin.undertone>> \notin cat
    THEN Exc("UnknownCombinationError", 0, "no palette for combination")
    ELSE [type |-> "dict",
          recommended |-> <<skin.undertone, "wear">>,
          avoid |-> <<skin.undertone, "avoid">>,
          palettes |-> <<skin.category, skin.undertone>>,
          tips |-> <<skin.category, "tips">>]

\* The catalogs the process may have been started with: the complete one, and
\* one built with a gap.
Catalogs == {AllCombinations, AllCombinations \ {<<"dark", "neutral">>}}

(* ------------------------------- state -------------------------------- *)

VARIABLES
    catalog,                \* color_analyzer's palette table (shared, built at import)
    pc,                     \* per request: position in the handler
    content_type,           \* per request: file.content_type
    file_content,           \* per request: local file_content
    processed_image,        \* per request: local processed_image
    skin_tone_data,         \* per request: local skin_tone_data
    color_recommendations,  \* per request: local color_recommendations
    exc,                    \* per request: the exception in flight
    response,               \* per request: what the client receives
    calls,                  \* per request: the core calls made, in order
    _settings,              \* app/config.py: the module global
    instances,              \* number of Settings() constructed so far
    tpc,                    \* per thread: position in get_settings
    ncalls,                 \* per thread: calls of get_settings started
    returned                \* per thread: the values its calls returned

handlerVars ==
    <<catalog, pc, content_type, file_content, processed_image, skin_tone_data,
      color_recommendations, exc, response, calls>>

settingsVars == <<_settings, instances, tpc, ncalls, returned>>

vars == <<handlerVars, settingsVars>>

\* No Settings instance: the None of app/config.py:13.
NoInstance == 0

Init ==
    /\ catalog \in Catalogs
    /\ pc = [r \in Requests |-> "idle"]
    /\ content_type = [r \in Requests |-> "none"]
    /\ file_content = [r \in Requests |-> None]
    /\ processed_image = [r \in Requests |-> None]
    /\ skin_tone_data = [r \in Requests |-> None]
    /\ color_recommendations = [r \in Requests |-> None]
    /\ exc = [r \in Requests |-> None]
    /\ response = [r \in Requests |-> None]
    /\ calls = [r \in Requests |-> << >>]
    /\ _settings = NoInstance
    /\ instances = 0
    /\ tpc = [t \in Threads |-> "idle"]
    /\ ncalls = [t \in Threads |-> 0]
    /\ returned = [t \in Threads |-> << >>]

(* ---------------- the upload handler: its expressions ----------------- *)

\* Faulty variant of TypeAllowed: any image/* type passes.
TypeAllowed_prefix(ct) == ct \in settings.allowed_image_types \union {"image/gif"}

\* color_analysis.py:30, the test guarding the "Invalid file type" raise,
\* negated: the declared content type is one of the allowed ones.
TypeAllowed(ct) == ct \in settings.allowed_image_types

\* color_analysis.py:38, the test guarding the "File too large" raise.
FileTooLarge(content) == content.len > settings.max_image_size

\* color_analysis.py:31-34 and 39-42, the exceptions validation raises.
InvalidFileType == HTTPException(400, <<"Invalid file type">>)
TooLarge == HTTPException(400, <<"File too large">>)

\* The arguments of the three core calls (lines 46, 49, 52).
ProcessArg(r) == file_content[r]

\* Faulty variant of AnalyzeArg: the raw bytes instead of the processed image.
AnalyzeArg_raw(r) == file_content[r]

\* Faulty variant of AnalyzeArg: the processed image kept in one slot shared by
\* all requests.
AnalyzeArg_shared(r) ==
    processed_image[CHOOSE q \in Requests : processed_image[q] # None]

AnalyzeArg(r) == processed_image[r]

RecommendArg(r) == skin_tone_data[r]

\* Faulty variant of Goto: a failure of process_image is swallowed and the
\* analysis goes on.
Goto_swallow(stage, raised) ==
    CASE stage = "validate_type" -> IF raised THEN "except" ELSE "read"
      [] stage = "read" -> "validate_size"
      [] stage = "validate_size" -> IF raised THEN "except" ELSE "process_image"
      [] stage = "process_image" -> "analyze_skin_tone"
      [] stage = "analyze_skin_tone" ->
            IF raised THEN "except" ELSE "get_color_recommendations"
      [] stage = "get_color_recommendations" -> IF raised THEN "except" ELSE "respond"
      [] OTHER -> "done"

\* Faulty variant of Goto: a rejected body is read again instead of failing.
Goto_reread(stage, raised) ==
    CASE stage = "validate_type" -> IF raised THEN "except" ELSE "read"
      [] stage = "read" -> "validate_size"
      [] stage = "validate_size" -> IF raised THEN "read" ELSE "process_image"
      [] stage = "process_image" -> IF raised THEN "except" ELSE "analyze_skin_tone"
      [] stage = "analyze_skin_tone" ->
            IF raised THEN "except" ELSE "get_color_recommendations"
      [] stage = "get_color_recommendations" -> IF raised THEN "except" ELSE "respond"
      [] OTHER -> "done"

\* Where control goes after a step of the try block: to the except clause when
\* the step raised, to the next statement otherwise (lines 26-76).
Goto(stage, raised) ==
    CASE raised -> "except"
      [] stage = "validate_type" -> "read"
      [] stage = "read" -> "validate_size"
      [] stage = "validate_size" -> "process_image"
      [] stage = "process_image" -> "analyze_skin_tone"
      [] stage = "analyze_skin_tone" -> "get_color_recommendations"
      [] stage = "get_color_recommendations" -> "respond"
      [] OTHER -> "done"

\* str(e): an HTTPException prints as "<status>: <detail>", the others as
\* their message.
StatusText(n) == IF n = 400 THEN "400" ELSE IF n = 500 THEN "500" ELSE "0"

Str(e) == IF e.class = "HTTPException" THEN <<StatusText(e.status)>> \o e.detail
          ELSE <<e.detail>>

\* color_analysis.py:71, `except Exception` catches e.
Caught(e) == e.class \in ExceptionSubclasses

\* Faulty variant of Reraised: the status depends on the class of e.
Reraised_typed(e) ==
    HTTPException(IF e.class \in {"DecodeError", "EmptyImageError"} THEN 400 ELSE 500,
                  <<"Error processing image">> \o Str(e))

\* color_analysis.py:73-76, the exception the except clause raises for e.
Reraised(e) == HTTPException(500, <<"Error processing image">> \o Str(e))

\* What the client receives for an HTTPException leaving the handler.
ErrorResponse(e) ==
    [type |-> "response", status |-> e.status, body |-> [detail |-> e.detail]]

\* Faulty variant of BuildResponse: styling_tips is left out.
BuildResponse_partial(skin, rec) ==
    [skin_tone |-> [category |-> skin.category,
                    undertone |-> skin.undertone,
                    dominant_colors |-> skin.dominant_colors,
                    confidence_score |-> skin.confidence],
     recommended_colors |-> rec.recommended,
     avoid_colors |-> rec.avoid,
     color_palettes |-> rec.palettes]

\* color_analysis.py:55-66, the response model built from the two results.
BuildResponse(skin, rec) ==
    [skin_tone |-> [category |-> skin.category,
                    undertone |-> skin.undertone,
                    dominant_colors |-> skin.dominant_colors,
                    confidence_score |-> skin.confidence],
     recommended_colors |-> rec.recommended,
     avoid_colors |-> rec.avoid,
     color_palettes |-> rec.palettes,
     styling_tips |-> rec.tips]

SuccessResponse(body) == [type |-> "response", status |-> 200, body |-> body]

Call(stage, arg, result) == [stage |-> stage, arg |-> arg, result |-> result]

(* ----------------- the upload handler: its steps ----------------------- *)

\* A client posts a file with a declared content type (line 22, 26-27).
Receive(r) ==
    /\ pc[r] = "idle"
    /\ \E ct \in ContentTypes : content_type' = [content_type EXCEPT ![r] = ct]
    /\ pc' = [pc EXCEPT ![r] = "validate_type"]
    /\ UNCHANGED <<catalog, file_content, processed_image, skin_tone_data,
                   color_recommendations, exc, response, calls, settingsVars>>

\* Lines 29-34.
ValidateType(r) ==
    /\ pc[r] = "validate_type"
    /\ LET raised == ~TypeAllowed(content_type[r]) IN
         /\ exc' = [exc EXCEPT ![r] = IF raised THEN InvalidFileType ELSE @]
         /\ pc' = [pc EXCEPT ![r] = Goto("validate_type", raised)]
    /\ UNCHANGED <<catalog, content_type, file_content, processed_image,
                   skin_tone_data, color_recommendations, response, calls,
                   settingsVars>>

\* Line 37: await file.read().
ReadFile(r) ==
    /\ pc[r] = "read"
    /\ \E body \in Bodies : file_content' = [file_content EXCEPT ![r] = body]
    /\ pc' = [pc EXCEPT ![r] = Goto("read", FALSE)]
    /\ UNCHANGED <<catalog, content_type, processed_image, skin_tone_data,
                   color_recommendations, exc, response, calls, settingsVars>>

\* Lines 38-42.
ValidateSize(r) ==
    /\ pc[r] = "validate_size"
    /\ LET raised == FileTooLarge(file_content[r]) IN
         /\ exc' = [exc EXCEPT ![r] = IF raised THEN TooLarge ELSE @]
         /\ pc' = [pc EXCEPT ![r] = Goto("validate_size", raised)]
    /\ UNCHANGED <<catalog, content_type, file_content, processed_image,
                   skin_tone_data, color_recommendations, response, calls,
                   settingsVars>>

\* Lines 44-46.
ProcessImage(r) ==
    /\ pc[r] = "process_image"
    /\ LET arg == ProcessArg(r)
           res == process_image(arg)
       IN
         /\ calls' = [calls EXCEPT ![r] = Append(@, Call("process_image", arg, res))]
         /\ processed_image' = [processed_image EXCEPT ![r] = IF IsError(res) THEN @ ELSE res]
         /\ exc' = [exc EXCEPT ![r] = IF IsError(res) THEN res ELSE @]
         /\ pc' = [pc EXCEPT ![r] = Goto("process_image", IsError(res))]
    /\ UNCHANGED <<catalog, content_type, file_content, skin_tone_data,
                   color_recommendations, response, settingsVars>>

\* Lines 48-49.
AnalyzeSkinTone(r) ==
    /\ pc[r] = "analyze_skin_tone"
    /\ LET arg == AnalyzeArg(r)
           res == analyze_skin_tone(arg)
       IN
         /\ calls' = [calls EXCEPT ![r] = Append(@, Call("analyze_skin_tone", arg, res))]
         /\ skin_tone_data' = [skin_tone_data EXCEPT ![r] = IF IsError(res) THEN @ ELSE res]
         /\ exc' = [exc EXCEPT ![r] = IF IsError(res) THEN res ELSE @]
         /\ pc' = [pc EXCEPT ![r] = Goto("analyze_skin_tone", IsError(res))]
    /\ UNCHANGED <<catalog, content_type, file_content, processed_image,
                   color_recommendations, response, settingsVars>>

\* Lines 51-52.
GetColorRecommendations(r) ==
    /\ pc[r] = "get_color_recommendations"
    /\ LET arg == RecommendArg(r)
           res == get_color_recommendations(catalog, arg)
       IN
         /\ calls' = [calls EXCEPT ![r] =
                         Append(@, Call("get_color_recommendations", arg, res))]
         /\ color_recommendations' =
                [color_recommendations EXCEPT ![r] = IF IsError(res) THEN @ ELSE res]
         /\ exc' = [exc EXCEPT ![r] = IF IsError(res) THEN res ELSE @]
         /\ pc' = [pc EXCEPT ![r] = Goto("get_color_recommendations", IsError(res))]
    /\ UNCHANGED <<catalog, content_type, file_content, processed_image,
                   skin_tone_data, response, settingsVars>>

\* Lines 54-69.
Respond(r) ==
    /\ pc[r] = "respond"
    /\ response' = [response EXCEPT ![r] =
           SuccessResponse(BuildResponse(skin_tone_data[r], color_recommendations[r]))]
    /\ pc' = [pc EXCEPT ![r] = Goto("respond", FALSE)]
    /\ UNCHANGED <<catalog, content_type, file_content, processed_image,
                   skin_tone_data, color_recommendations, exc, calls, settingsVars>>

\* Lines 71-76: the except clause, and the framework answering the
\* HTTPException it raises.
ExceptHandler(r) ==
    /\ pc[r] = "except"
    /\ Caught(exc[r])
    /\ exc' = [exc EXCEPT ![r] = Reraised(exc[r])]
    /\ response' = [response EXCEPT ![r] = ErrorResponse(Reraised(exc[r]))]
    /\ pc' = [pc EXCEPT ![r] = "done"]
    /\ UNCHANGED <<catalog, content_type, file_content, processed_image,
                   skin_tone_data, color_recommendations, calls, settingsVars>>

Step(r) ==
    \/ Receive(r)
    \/ ValidateType(r)
    \/ ReadFile(r)
    \/ ValidateSize(r)
    \/ ProcessImage(r)
    \/ AnalyzeSkinTone(r)
    \/ GetColorRecommendations(r)
    \/ Respond(r)
    \/ ExceptHandler(r)

Next == \E r \in Requests : Step(r)

Spec == Init /\ [][Next]_vars

\* The event loop runs every task that is ready: a request that can take a
\* step eventually takes it.
FairSpec == Spec /\ \A r \in Requests : WF_vars(Step(r))

(* -------------------- app/config.py: get_settings --------------------- *)

\* A thread calls get_settings() (line 15).
CallGetSettings(t) ==
    /\ tpc[t] = "idle"
    /\ ncalls[t] < MaxCalls
    /\ ncalls' = [ncalls EXCEPT ![t] = @ + 1]
    /\ tpc' = [tpc EXCEPT ![t] = "test"]
    /\ UNCHANGED <<handlerVars, _settings, instances, returned>>

\* Line 18: if _settings is None.
TestNone(t) ==
    /\ tpc[t] = "test"
    /\ tpc' = [tpc EXCEPT ![t] = IF _settings = NoInstance THEN "construct" ELSE "return"]
    /\ UNCHANGED <<handlerVars, _settings, instances, ncalls, returned>>

\* Line 19: _settings = Settings(), a new instance.
Construct(t) ==
    /\ tpc[t] = "construct"
    /\ instances' = instances + 1
    /\ _settings' = instances + 1
    /\ tpc' = [tpc EXCEPT ![t] = "return"]
    /\ UNCHANGED <<handlerVars, ncalls, returned>>

\* Line 20: return _settings.
Return(t) ==
    /\ tpc[t] = "return"
    /\ returned' = [returned EXCEPT ![t] = Append(@, _settings)]
    /\ tpc' = [tpc EXCEPT ![t] = "idle"]
    /\ UNCHANGED <<handlerVars, _settings, instances, ncalls>>

GetSettingsStep(t) ==
    \/ CallGetSettings(t)
    \/ TestNone(t)
    \/ Construct(t)
    \/ Return(t)

SettingsNext == \E t \in Threads : GetSettingsStep(t)

SettingsSpec == Init /\ [][SettingsNext]_vars

(* ------------------------------ claims -------------------------------- *)

Done(r) == pc[r] = "done"

Allowed(r) == content_type[r] \in settings.allowed_image_types

HasBody(r) == file_content[r].type = "bytes"

\* The request's i-th core call raised.
Raised(r, i) == i \in 1..Len(calls[r]) /\ calls[r][i].result.type = "exception"

RaisedClass(r, i, class) == Raised(r, i) /\ calls[r][i].result.class = class

IsErrorResponse(resp) ==
    /\ resp.type = "response"
    /\ resp.status \in 400..599
    /\ DOMAIN resp.body = {"detail"}

\* C1: a request whose content type is not among the allowed ones is answered
\* with status 400 "Invalid file type", never with a 500 or a success.
C1_InvalidTypeAnswered400 ==
    \A r \in Requests :
        (Done(r) /\ ~Allowed(r)) =>
            /\ response[r].status = 400
            /\ response[r].body.detail = <<"Invalid file type">>

\* C2: a request with an allowed content type and a body longer than
\* max_image_size is answered with status 400 "File too large"; a body of
\* exactly max_image_size bytes passes the size check.
C2_TooLargeAnswered400 ==
    \A r \in Requests :
        (Done(r) /\ Allowed(r)) =>
            /\ file_content[r].len > settings.max_image_size =>
                   /\ response[r].status = 400
                   /\ response[r].body.detail = <<"File too large">>
            /\ file_content[r].len = settings.max_image_size => calls[r] # << >>

\* C3: a core stage is called, or about to be called, only for a request whose
\* content type is allowed and whose body is at most max_image_size long; a
\* request failing either check has made no core call.
C3_CoreOnlyAfterValidation ==
    \A r \in Requests :
        LET passed == /\ Allowed(r)
                      /\ HasBody(r)
                      /\ file_content[r].len <= settings.max_image_size
            inCore == pc[r] \in {"process_image", "analyze_skin_tone",
                                 "get_color_recommendations", "respond"}
        IN  /\ (calls[r] # << >> \/ inCore) => passed
            /\ ~passed => calls[r] = << >>

\* C3's case: one request reached the core while another was turned away by a
\* check.
C3_Witness ==
    \E r, q \in Requests :
        /\ calls[r] # << >>
        /\ Done(q) /\ calls[q] = << >>
        /\ ~Allowed(q)

StageOrder == <<"process_image", "analyze_skin_tone", "get_color_recommendations">>

\* C4: the core calls of a request are process_image, analyze_skin_tone,
\* get_color_recommendations in this order, each at most once; the first is
\* given the request's bytes and each later one the result of the one before;
\* a success response comes after all three.
C4_StagesInOrder ==
    \A r \in Requests :
        /\ Len(calls[r]) <= 3
        /\ \A i \in 1..Len(calls[r]) :
              /\ calls[r][i].stage = StageOrder[i]
              /\ calls[r][i].arg = IF i = 1 THEN file_content[r]
                                   ELSE calls[r][i - 1].result
        /\ (Done(r) /\ response[r].status = 200) => Len(calls[r]) = 3
        /\ pc[r] = "analyze_skin_tone" => Len(calls[r]) = 1
        /\ pc[r] = "get_color_recommendations" => Len(calls[r]) = 2
        /\ pc[r] = "respond" => Len(calls[r]) = 3

\* C4's case: a request ran all three stages.
C4_Witness ==
    \E r \in Requests :
        /\ Len(calls[r]) = 3
        /\ ~Raised(r, 3)
        /\ Done(r)

\* C5: a finished request has either a complete response, every field taken
\* from the analysis of its own bytes after three stages that did not raise,
\* or an error response with none of the fields; an unfinished one has no
\* response at all.
C5_CompleteOrError ==
    \A r \in Requests :
        /\ ~Done(r) => response[r] = None
        /\ Done(r) =>
              \/ /\ response[r].status = 200
                 /\ Len(calls[r]) = 3
                 /\ \A i \in 1..3 : ~Raised(r, i)
                 /\ LET skin == analyze_skin_tone(process_image(file_content[r]))
                        rec == get_color_recommendations(catalog, skin)
                        body == response[r].body
                    IN  /\ DOMAIN body = {"skin_tone", "recommended_colors", "avoid_colors",
                                          "color_palettes", "styling_tips"}
                        /\ DOMAIN body.skin_tone = {"category", "undertone",
                                                    "dominant_colors", "confidence_score"}
                        /\ body.skin_tone.category = skin.category
                        /\ body.skin_tone.undertone = skin.undertone
                        /\ body.skin_tone.dominant_colors = skin.dominant_colors
                        /\ body.skin_tone.confidence_score = skin.confidence
                        /\ body.recommended_colors = rec.recommended
                        /\ body.avoid_colors = rec.avoid
                        /\ body.color_palettes = rec.palettes
                        /\ body.styling_tips = rec.tips
              \/ /\ IsErrorResponse(response[r])
                 /\ \/ ~Allowed(r)
                    \/ file_content[r].len > settings.max_image_size
                    \/ \E i \in 1..3 : Raised(r, i)

\* C5's case: one request ended with a complete response and another with an
\* error after a core stage raised.
C5_Witness ==
    \E r, q \in Requests :
        /\ Done(r) /\ response[r].status = 200
        /\ Done(q) /\ IsErrorResponse(response[q]) /\ Raised(q, 2)

\* C6 as stated: a DecodeError of process_image is answered with a 4xx status
\* and an UnknownCombinationError with a 5xx status.
C6_DecodeErrorAnswered4xx ==
    \A r \in Requests :
        Done(r) =>
            /\ RaisedClass(r, 1, "DecodeError") => response[r].status \in 400..499
            /\ RaisedClass(r, 3, "UnknownCombinationError") =>
                   response[r].status \in 500..599

\* C6 amended: a DecodeError of process_image is answered with status 500 and
\* the decode error's message in the detail, the same status an
\* UnknownCombinationError gets, the detail alone telling them apart; no result
\* is returned.
C6_DecodeErrorAnswered500 ==
    \A r \in Requests :
        Done(r) =>
            /\ RaisedClass(r, 1, "DecodeError") =>
                   /\ IsErrorResponse(response[r])
                   /\ response[r].status = 500
                   /\ response[r].body.detail =
                          <<"Error processing image", "cannot decode image">>
            /\ RaisedClass(r, 3, "UnknownCombinationError") =>
                   /\ IsErrorResponse(response[r])
                   /\ response[r].status = 500
                   /\ response[r].body.detail =
                          <<"Error processing image", "no palette for combination">>

\* C6's case: one request ended on a DecodeError, another on an
\* UnknownCombinationError.
C6_Witness ==
    \E r, q \in Requests :
        /\ Done(r) /\ RaisedClass(r, 1, "DecodeError")
        /\ Done(q) /\ RaisedClass(q, 3, "UnknownCombinationError")

\* C7: once a check or a core stage of a request has failed, the request makes
\* no further core call, repeats none, is in its except clause or finished,
\* and finishes with an error response.
C7_ErrorsPropagate ==
    \A r \in Requests :
        LET failedType == pc[r] \notin {"idle", "validate_type"} /\ ~Allowed(r)
            failedSize == /\ HasBody(r)
                          /\ pc[r] # "validate_size"
                          /\ file_content[r].len > settings.max_image_size
            failedCore == \E i \in 1..Len(calls[r]) : Raised(r, i)
        IN  /\ failedType => calls[r] = << >> /\ file_content[r] = None
            /\ failedSize => calls[r] = << >>
            /\ \A i \in 1..Len(calls[r]) : Raised(r, i) => i = Len(calls[r])
            /\ \A i, j \in 1..Len(calls[r]) :
                   calls[r][i].stage = calls[r][j].stage => i = j
            /\ (failedType \/ failedSize \/ failedCore) =>
                   /\ pc[r] \in {"except", "done"}
                   /\ exc[r].type = "exception"
                   /\ Done(r) => IsErrorResponse(response[r])

\* C7's case: requests finished after a failed check, and after each of the
\* first two stages raising.
C7_Witness ==
    \E r, q \in Requests :
        /\ Done(r) /\ Len(calls[r]) = 2 /\ Raised(r, 2)
        /\ Done(q) /\ \/ Len(calls[q]) = 1 /\ Raised(q, 1)
                      \/ HasBody(q) /\ calls[q] = << >>

\* The handler run alone, start to end, on one request: lines 26-76 as a
\* function of the declared content type, the bytes read and the catalog.
SoloOutcome(cat, ct, body) ==
    IF ~TypeAllowed(ct) THEN ErrorResponse(Reraised(InvalidFileType))
    ELSE IF FileTooLarge(body) THEN ErrorResponse(Reraised(TooLarge))
    ELSE LET samples == process_image(body) IN
         IF IsError(samples) THEN ErrorResponse(Reraised(samples))
         ELSE LET skin == analyze_skin_tone(samples) IN
              IF IsError(skin) THEN ErrorResponse(Reraised(skin))
              ELSE LET rec == get_color_recommendations(cat, skin) IN
                   IF IsError(rec) THEN ErrorResponse(Reraised(rec))
                   ELSE SuccessResponse(BuildResponse(skin, rec))

\* The state a request owns.
Locals(r) ==
    <<pc[r], content_type[r], file_content[r], processed_image[r], skin_tone_data[r],
      color_recommendations[r], exc[r], response[r], calls[r]>>

\* C8: no step of a request writes the shared catalog or another request's
\* state, and a finished request's response is the one the handler gives that
\* request's content type and bytes when run alone, whatever the other
\* requests did in between.
C8_RequestsIndependent ==
    [][/\ catalog' = catalog
       /\ \A r \in Requests :
             /\ Locals(r)' # Locals(r) =>
                    \A q \in Requests \ {r} : Locals(q)' = Locals(q)
             /\ pc'[r] = "done" =>
                    response'[r] = SoloOutcome(catalog', content_type'[r], file_content'[r])
      ]_vars

\* C8's case: two requests with different bytes both finished, the second
\* having run its analysis after the first had processed its image.
C8_Witness ==
    \E r, q \in Requests :
        /\ r < q
        /\ Done(r) /\ Done(q)
        /\ Len(calls[r]) >= 1 /\ ~Raised(r, 1)
        /\ Len(calls[q]) >= 2
        /\ file_content[r] # file_content[q]
        /\ response[r] # response[q]

\* C9: every request the handler has started on ends with a response.
C9_EveryRequestTerminates ==
    \A r \in Requests : (pc[r] # "idle") ~> Done(r)

\* C9's case: all requests were received and all have finished, one of them
\* after a rejected body.
C9_Witness ==
    /\ \A r \in Requests : Done(r)
    /\ \E r \in Requests :
          HasBody(r) /\ file_content[r].len > settings.max_image_size

\* C10: Settings() is constructed at most once, every call of get_settings
\* returns the same instance, and _settings, once set, stays the first
\* instance.
C10_Singleton ==
    /\ instances <= 1
    /\ _settings # NoInstance => _settings = 1
    /\ \A t, u \in Threads :
          \A i \in 1..Len(returned[t]) :
              \A j \in 1..Len(returned[u]) : returned[t][i] = returned[u][j]

====
